---- MODULE Spec2Model ----
(***************************************************************************)
(* State-machine model of the MedConnect / Medullose Flask application     *)
(* (src/app.py, src/gunicorn.conf.py): the relational tables, the login    *)
(* sessions of the browsers, and one action per HTTP handler.              *)
(*                                                                         *)
(* Strings that the code parses (the time of a reminder, the dosage) are   *)
(* sequences of one-character strings, so that time.fromisoformat and the  *)
(* strftime('%I:%M %p') conversion are computed, not assumed.              *)
(*                                                                         *)
(* A handler runs as one step and leaves its inputs, its outcome and the   *)
(* tables it found in `last`; Deliver then sends the response.  signup is  *)
(* two steps per gunicorn worker, the query and the commit.  A database    *)
(* statement may fail wherever a handler executes one.                     *)
(***************************************************************************)
EXTENDS Integers, Sequences, FiniteSets, TLC

\* ------------------------------------------------------------------------
\* Bounds of the model (not program constants)
\* ------------------------------------------------------------------------
\* rows of the user table
MaxUsers == 2
\* rows of the chat_history and reminder tables together
MaxRows == 3
\* rows of the appointment table
MaxAppts == 2
\* largest primary key a table hands out
MaxId == 3
\* readings of the wall clock
MaxTime == 1

\* ------------------------------------------------------------------------
\* Program constants
\* ------------------------------------------------------------------------
\* the directory _init_db loads: nine doctors, ids 1..9
NumDoctors == 9
\* ChatHistory rows the /ask handler reads back as context: .limit(10)
HistoryLimit == 10

Clients == {"b1", "b2"}
Workers == {"w1", "w2"}
Emails == {"a@x", "b@x"}
Passwords == {"pw1", "pw2"}

\* ------------------------------------------------------------------------
\* JSON values of the fields of the model's reply: a string (sequence of
\* characters), null / missing key (dict.get gives None for both), a number
\* ------------------------------------------------------------------------
JStr(s) == [t |-> "str", s |-> s]
JNull == [t |-> "null", s |-> <<>>]
JNum(s) == [t |-> "num", s |-> s]

\* Python truthiness of a value obtained by data.get(...): None and "" are
\* falsy, a non-zero number is truthy
Truthy(v) ==
    CASE v.t = "null" -> FALSE
      [] v.t = "str" -> v.s # <<>>
      [] OTHER -> v.s # <<"0">>

DigitVal ==
    [c \in {"0", "1", "2", "3", "4", "5", "6", "7", "8", "9"} |->
        CASE c = "0" -> 0 [] c = "1" -> 1 [] c = "2" -> 2 [] c = "3" -> 3
          [] c = "4" -> 4 [] c = "5" -> 5 [] c = "6" -> 6 [] c = "7" -> 7
          [] c = "8" -> 8 [] OTHER -> 9]

IsDigit(c) == c \in DOMAIN DigitVal

\* two characters of s at position i read as a two-digit number, -1 if they
\* are not two digits
TwoDigits(s, i) ==
    IF IsDigit(s[i]) /\ IsDigit(s[i + 1])
    THEN 10 * DigitVal[s[i]] + DigitVal[s[i + 1]]
    ELSE -1

NoTime == [h |-> 0, m |-> 0, s |-> 0]

\* datetime.time.fromisoformat(time_str): the forms every CPython from 3.7
\* on accepts are HH, HH:MM and HH:MM:SS; a non-string argument raises
\* TypeError, anything else ValueError.
fromisoformat(v) ==
    IF v.t # "str" THEN [exc |-> "TypeError", tm |-> NoTime]
    ELSE LET s == v.s
             n == Len(s)
             shape == /\ n \in {2, 5, 8}
                      /\ n >= 5 => s[3] = ":"
                      /\ n >= 8 => s[6] = ":"
             hh == TwoDigits(s, 1)
             mm == IF n >= 5 THEN TwoDigits(s, 4) ELSE 0
             ss == IF n >= 8 THEN TwoDigits(s, 7) ELSE 0
         IN IF shape /\ hh \in 0..23 /\ mm \in 0..59 /\ ss \in 0..59
            THEN [exc |-> "none", tm |-> [h |-> hh, m |-> mm, s |-> ss]]
            ELSE [exc |-> "ValueError", tm |-> NoTime]

\* reminder_time_obj.strftime('%I:%M %p'): 12-hour clock, minutes, AM/PM
strftime(tm) ==
    [h12 |-> IF tm.h % 12 = 0 THEN 12 ELSE tm.h % 12,
     m |-> tm.m,
     pm |-> tm.h >= 12]

\* ------------------------------------------------------------------------
\* The reply of the chat-completion call, as get_openrouter_response hands
\* it to /ask
\*   fail   : the call raised, the canned "trouble connecting" text returns
\*   text   : prose, json.loads raises JSONDecodeError
\*   nonobj : text that is JSON but no object (a number, a list, null)
\*   obj    : a JSON object with the keys action, medicine, dosage, time
\* ------------------------------------------------------------------------
Reply(kind, action, medicine, dosage, tm) ==
    [kind |-> kind, action |-> action, medicine |-> medicine,
     dosage |-> dosage, time |-> tm]

NoReply == Reply("none", "none", JNull, JNull, JNull)

\* a number as medicine is truthy; the VARCHAR column stores its digits
Medicines == {JNull, JStr(<<>>), JStr(<<"A">>), JNum(<<"5">>)}
Dosages == {JNull, JStr(<<"N", "o", "n", "e">>), JStr(<<"5">>)}
Times ==
    {JNull, JStr(<<>>), JNum(<<"8">>),
     JStr(<<"0", "8", ":", "0", "0">>),
     JStr(<<"2", "5", ":", "0", "0">>),
     JStr(<<"0", "8", ":", "0", "0", ":", "3", "0">>),
     JStr(<<"2", "0">>)}

Replies ==
    {Reply("fail", "none", JNull, JNull, JNull),
     Reply("text", "none", JNull, JNull, JNull),
     Reply("nonobj", "none", JNull, JNull, JNull),
     Reply("obj", "other", JNull, JNull, JNull)}
    \cup {Reply("obj", "create_reminder", JStr(<<"A">>), JNull, t) :
            t \in Times}
    \cup {Reply("obj", "create_reminder", m, JNull, t) :
            m \in Medicines, t \in {JNull, JStr(<<"0", "8", ":", "0", "0">>)}}
    \cup {Reply("obj", "create_reminder", JStr(<<"A">>), d,
                 JStr(<<"0", "8", ":", "0", "0">>)) : d \in Dosages}

\* ------------------------------------------------------------------------
\* Text of a chat message or of an answer, by the template that made it
\*   user / raw / canned / missing / confirm / badtime / apology
\* ------------------------------------------------------------------------
NoFriendly == [h12 |-> 0, m |-> 0, pm |-> FALSE]

Content(tag, reply, med, dos, tstr, tf) ==
    [tag |-> tag, reply |-> reply, med |-> med, dos |-> dos,
     tstr |-> tstr, tf |-> tf]

NoContent == Content("none", NoReply, <<>>, <<>>, <<>>, NoFriendly)
UserText == Content("user", NoReply, <<>>, <<>>, <<>>, NoFriendly)
\* the reply text itself
RawText(reply) == Content("raw", reply, <<>>, <<>>, <<>>, NoFriendly)
\* "I'm sorry, I'm having trouble connecting to my brain right now. ..."
CannedText == Content("canned", NoReply, <<>>, <<>>, <<>>, NoFriendly)
\* "I'm sorry, I missed some of those details. Could you please provide ..."
MissingText == Content("missing", NoReply, <<>>, <<>>, <<>>, NoFriendly)
\* "I'm sorry, I couldn't understand the time '{time_str}'. ..."
BadTimeText(tstr) == Content("badtime", NoReply, <<>>, <<>>, tstr, NoFriendly)
\* "I'm sorry, I had trouble saving that reminder. ..."
ApologyText == Content("apology", NoReply, <<>>, <<>>, <<>>, NoFriendly)
\* "OK, I've set a reminder for {med_name}{dosage_text} at {time_friendly}. ..."
ConfirmText(med, dos, tf) == Content("confirm", NoReply, med, dos, <<>>, tf)

\* ------------------------------------------------------------------------
\* State
\* ------------------------------------------------------------------------
VARIABLES
    users,          \* table user: rows [id, email, pw]
    chats,          \* table chat_history: rows [id, role, content, ts, user_id]
    reminders,      \* table reminder: rows [id, med, dosage, tm, user_id]
    appts,          \* table appointment: rows [id, dt, user_id, doctor_id]
    session,        \* per browser: the user id of its login cookie, 0 if none
    signupPc,       \* per gunicorn worker: position inside signup()
    signupReq,      \* per gunicorn worker: the signup request it is handling
    now,            \* wall clock
    cascadeBackrefs,\* whether the installed ORM cascades an object into the
                    \* session when a backref assignment links it to a parent
    last            \* the last finished request: inputs, outcome, tables before

vars ==
    <<users, chats, reminders, appts, session, signupPc, signupReq, now,
      cascadeBackrefs, last>>

Tables == [users |-> users, chats |-> chats, reminders |-> reminders,
           appts |-> appts]

NoTables == [users |-> {}, chats |-> {}, reminders |-> {}, appts |-> {}]

NoReq == [client |-> "none", name |-> "", email |-> "", pw |-> ""]

NoLast ==
    [op |-> "none", client |-> "none", user |-> 0, status |-> "none",
     answer |-> NoContent, reply |-> NoReply, fail |-> "none",
     med |-> JNull, dosage |-> JNull, time |-> JNull,
     id |-> 0, dt |-> 0, email |-> "", now |-> 0, pre |-> NoTables,
     history |-> <<>>, messages |-> <<>>, keyOk |-> FALSE]

\* SQLite gives a new row of an INTEGER PRIMARY KEY table max(id) + 1
Max(S) == IF S = {} THEN 0 ELSE CHOOSE x \in S : \A y \in S : y <= x
NextId(rows) == Max({r.id : r \in rows}) + 1

\* rows in the two tables /ask writes
Rows == Cardinality(chats) + Cardinality(reminders)

\* no request is being answered
Idle == last.op = "none"

\* flask_login: load_user(session id); a missing row leaves the request
\* anonymous
load_user(user_id) ==
    IF \E u \in users : u.id = user_id THEN user_id ELSE 0

current_user(c) == load_user(session[c])

Init ==
    /\ users = {}
    /\ chats = {}
    /\ reminders = {}
    /\ appts = {}
    /\ session = [c \in Clients |-> 0]
    /\ signupPc = [w \in Workers |-> "idle"]
    /\ signupReq = [w \in Workers |-> NoReq]
    /\ now = 0
    /\ cascadeBackrefs \in BOOLEAN
    /\ last = NoLast

\* ------------------------------------------------------------------------
\* /ask: what the handler makes of the model's reply (app.py 502-541)
\* ------------------------------------------------------------------------
NoReminder == [on |-> FALSE, med |-> <<>>, dosage |-> JNull, tm |-> NoTime]

Outcome(answer, reminder, rollback, exc) ==
    [answer |-> answer, reminder |-> reminder, rollback |-> rollback,
     exc |-> exc]

\* get_openrouter_response without its except branch's canned text
get_openrouter_response_uncaught(reply) == RawText(reply)

\* the text get_openrouter_response returns
get_openrouter_response(reply) ==
    IF reply.kind = "fail" THEN CannedText ELSE RawText(reply)

\* if dosage == "None": dosage = None
NormDosage(d) ==
    IF d = JStr(<<"N", "o", "n", "e">>) THEN JNull ELSE d

\* f" ({dosage})" if dosage else ""
DosageText(d) == IF Truthy(d) THEN d.s ELSE <<>>

\* the sentinel branch that saves the reminder and keeps the model's raw
\* text as the answer
CreateReminderIntentRaw(reply) ==
    LET parsed == fromisoformat(reply.time)
    IN IF ~Truthy(reply.medicine) \/ ~Truthy(reply.time)
       THEN Outcome(MissingText, NoReminder, FALSE, "none")
       ELSE CASE parsed.exc = "ValueError" ->
                   Outcome(BadTimeText(reply.time.s), NoReminder, FALSE,
                           "none")
              [] parsed.exc = "TypeError" ->
                   Outcome(ApologyText, NoReminder, TRUE, "none")
              [] OTHER ->
                   Outcome(RawText(reply),
                           [on |-> TRUE, med |-> reply.medicine.s,
                            dosage |-> NormDosage(reply.dosage),
                            tm |-> parsed.tm],
                           FALSE, "none")

\* the sentinel branch, entered when data.get('action') == 'create_reminder'
CreateReminderIntent(reply) ==
    LET med_name == reply.medicine
        dosage == NormDosage(reply.dosage)
        time_str == reply.time
        parsed == fromisoformat(time_str)
    IN IF ~Truthy(med_name) \/ ~Truthy(time_str)
       THEN Outcome(MissingText, NoReminder, FALSE, "none")
       ELSE CASE parsed.exc = "ValueError" ->
                   Outcome(BadTimeText(time_str.s), NoReminder, FALSE, "none")
              [] parsed.exc = "TypeError" ->
                   \* except Exception: db.session.rollback()
                   Outcome(ApologyText, NoReminder, TRUE, "none")
              [] OTHER ->
                   Outcome(ConfirmText(med_name.s, DosageText(dosage),
                                       strftime(parsed.tm)),
                           [on |-> TRUE, med |-> med_name.s,
                            dosage |-> dosage, tm |-> parsed.tm],
                           FALSE, "none")

\* json.loads without the except (json.JSONDecodeError, TypeError): pass
InterpretNoFallback(reply) ==
    CASE reply.kind \in {"fail", "text"} ->
           Outcome(NoContent, NoReminder, FALSE, "JSONDecodeError")
      [] reply.kind = "nonobj" ->
           Outcome(NoContent, NoReminder, FALSE, "AttributeError")
      [] reply.action = "create_reminder" -> CreateReminderIntent(reply)
      [] OTHER ->
           Outcome(get_openrouter_response(reply), NoReminder, FALSE, "none")

\* json.loads and the branch on the parsed value
Interpret(reply) ==
    CASE reply.kind \in {"fail", "text"} ->
           \* json.JSONDecodeError: pass
           Outcome(get_openrouter_response(reply), NoReminder, FALSE, "none")
      [] reply.kind = "nonobj" ->
           \* data.get on a value that is no dict
           Outcome(NoContent, NoReminder, FALSE, "AttributeError")
      [] reply.action = "create_reminder" -> CreateReminderIntent(reply)
      [] OTHER ->
           Outcome(get_openrouter_response(reply), NoReminder, FALSE, "none")

\* ------------------------------------------------------------------------
\* Requests.  Finish records the finished request and leaves the tables.
\* ------------------------------------------------------------------------
Req(op, c) ==
    [NoLast EXCEPT !.op = op, !.client = c, !.user = current_user(c),
                   !.now = now, !.pre = Tables]

Finish(rec, status) ==
    /\ last' = [rec EXCEPT !.status = status]
    /\ UNCHANGED <<users, chats, reminders, appts, session, signupPc,
                   signupReq, now, cascadeBackrefs>>

\* the request met a failing database statement
Failed(rec, f) == [rec EXCEPT !.fail = f]

\* points of a request at which the database can fail
AskFailures == {"none", "flush", "commit"}
CommitFailures == {"none", "commit"}

ChatRow(rows, role, content, ts, u) ==
    [id |-> NextId(rows), role |-> role, content |-> content, ts |-> ts,
     user_id |-> u]

\* ChatHistory.query.filter_by(user_id=...)
filter_by(rows, u) == {m \in rows : m.user_id = u}

\* the rows a query may hand out first: those of the least timestamp
Earliest(rows) == {m \in rows : \A x \in rows : m.ts <= x.ts}
\* ... and under .desc(): those of the greatest timestamp
Latest(rows) == {m \in rows : \A x \in rows : m.ts >= x.ts}

RECURSIVE Arrangements(_)
\* a query that does not order by the timestamp: every arrangement of the rows
Arrangements(rows) ==
    IF rows = {} THEN {<<>>}
    ELSE UNION {{<<m>> \o rest : rest \in Arrangements(rows \ {m})} :
                  m \in rows}

RECURSIVE order_by(_)
\* .order_by(ChatHistory.timestamp).all(): the results the database may
\* give, rows of equal timestamp in any order
order_by(rows) ==
    IF rows = {} THEN {<<>>}
    ELSE UNION {{<<m>> \o rest : rest \in order_by(rows \ {m})} :
                  m \in Earliest(rows)}

RECURSIVE order_by_desc(_)
\* .order_by(ChatHistory.timestamp.desc()).all()
order_by_desc(rows) ==
    IF rows = {} THEN {<<>>}
    ELSE UNION {{<<m>> \o rest : rest \in order_by_desc(rows \ {m})} :
                  m \in Latest(rows)}

\* .limit(n)
Limit(seq, n) == SubSeq(seq, 1, IF Len(seq) < n THEN Len(seq) ELSE n)

\* list.reverse()
Reverse(seq) == [i \in 1..Len(seq) |-> seq[Len(seq) + 1 - i]]

\* the system prompt of /ask
SystemPrompt == Content("system", NoReply, <<>>, <<>>, <<>>, NoFriendly)

\* one entry of `messages`; row is the primary key of the ChatHistory row
\* the entry was made from, 0 for an entry made from the request itself
Message(role, content, row) ==
    [role |-> role, content |-> content, row |-> row]

\* recent_history as the query hands it out: newest first, at most ten
\* rows, rows of equal timestamp in any order
RecentHistoryNewestFirst(rows, u) ==
    {Limit(h, HistoryLimit) : h \in order_by_desc(filter_by(rows, u))}

\* messages = [system_prompt] + [... for msg in recent_history], then
\* messages.append(the user's message)
messages(recent_history, user_message_content) ==
    <<Message("system", SystemPrompt, 0)>>
    \o [i \in 1..Len(recent_history) |->
           Message(recent_history[i].role, recent_history[i].content,
                   recent_history[i].id)]
    \o <<Message("user", user_message_content, 0)>>

\* POST /ask
Ask(c, msg, reply, f) ==
    LET u == current_user(c)
        rec == [Req("ask", c) EXCEPT !.reply = reply]
        r == Interpret(reply)
        \* line 476 adds the user message, the query of line 496 flushes it;
        \* a rollback in the reminder branch discards it again
        user_message == ChatRow(chats, "user", UserText, now, u)
        chats1 == IF r.rollback THEN chats ELSE chats \cup {user_message}
        \* line 543 links the assistant message to current_user and never
        \* adds it to the session itself
        chats2 == IF cascadeBackrefs
                  THEN chats1 \cup
                       {ChatRow(chats1, "assistant", r.answer, now, u)}
                  ELSE chats1
        rems2 == IF r.reminder.on
                 THEN reminders \cup
                      {[id |-> NextId(reminders), med |-> r.reminder.med,
                        dosage |-> r.reminder.dosage, tm |-> r.reminder.tm,
                        user_id |-> u]}
                 ELSE reminders
    IN IF u = 0 THEN Finish(rec, "login_required")
       ELSE IF msg = "" THEN Finish(rec, "bad_request")
       \* the INSERT of the user message fails inside the query of line 496,
       \* outside every try
       ELSE IF f = "flush" THEN Finish(Failed(rec, f), "unhandled")
       \* the flushed row is within the bounds of the model
       ELSE /\ Rows < MaxRows
            /\ user_message.id <= MaxId
            \* the query of line 496 runs with the user message flushed
            /\ \E newest_first \in
                     RecentHistoryNewestFirst(chats \cup {user_message}, u) :
                 LET recent_history == Reverse(newest_first)
                     sent == [rec EXCEPT !.messages =
                                 messages(recent_history, UserText)]
                 IN IF r.exc # "none" THEN Finish(sent, "unhandled")
                    ELSE IF f = "commit"
                    THEN Finish(Failed(sent, f), "error")
                    ELSE /\ Cardinality(chats2) + Cardinality(rems2)
                                <= MaxRows
                         /\ \A m \in chats2 : m.id <= MaxId
                         /\ \A m \in rems2 : m.id <= MaxId
                         /\ chats' = chats2
                         /\ reminders' = rems2
                         /\ last' = [sent EXCEPT !.status = "ok",
                                                 !.answer = r.answer]
                         /\ UNCHANGED <<users, appts, session, signupPc,
                                        signupReq, now, cascadeBackrefs>>

\* POST /clear_chat
ClearChat(c, f) ==
    LET u == current_user(c)
        rec == Req("clear_chat", c)
    IN IF u = 0 THEN Finish(rec, "login_required")
       ELSE IF f = "commit" THEN Finish(Failed(rec, f), "error")
       ELSE /\ chats' = {m \in chats : m.user_id # u}
            /\ last' = [rec EXCEPT !.status = "ok"]
            /\ UNCHANGED <<users, reminders, appts, session, signupPc,
                           signupReq, now, cascadeBackrefs>>

\* GET /get_history: `history` is the query result; the response lists the
\* role and the content of its rows in the same order
GetHistory(c) ==
    LET u == current_user(c)
        rec == Req("get_history", c)
    IN IF u = 0 THEN Finish(rec, "login_required")
       ELSE \E history \in order_by(filter_by(chats, u)) :
               Finish([rec EXCEPT !.history = history], "ok")

\* POST /api/add_reminder
AddReminder(c, med, dosage, tstr, f) ==
    LET u == current_user(c)
        rec == [Req("add_reminder", c) EXCEPT !.med = med,
                    !.dosage = dosage, !.time = tstr]
        parsed == fromisoformat(tstr)
    IN IF u = 0 THEN Finish(rec, "login_required")
       ELSE IF ~Truthy(med) \/ ~Truthy(tstr) THEN Finish(rec, "bad_request")
       ELSE IF parsed.exc = "ValueError" THEN Finish(rec, "bad_request")
       ELSE IF parsed.exc = "TypeError" THEN Finish(rec, "error")
       ELSE IF f = "commit" THEN Finish(Failed(rec, f), "error")
       ELSE /\ Rows < MaxRows
            /\ NextId(reminders) <= MaxId
            /\ reminders' = reminders \cup
                   {[id |-> NextId(reminders), med |-> med.s,
                     dosage |-> dosage, tm |-> parsed.tm, user_id |-> u]}
            /\ last' = [rec EXCEPT !.status = "created",
                                   !.id = NextId(reminders)]
            /\ UNCHANGED <<users, chats, appts, session, signupPc,
                           signupReq, now, cascadeBackrefs>>

\* the handler without its ownership test
NotOwnerNever(row, u) == FALSE

\* reminder.user_id != current_user.id / appointment.user_id != current_user.id
NotOwner(row, u) == row.user_id # u

\* DELETE /api/delete_reminder/<id>
DeleteReminder(c, rid, f) ==
    LET u == current_user(c)
        rec == [Req("delete_reminder", c) EXCEPT !.id = rid]
        found == {r \in reminders : r.id = rid}
    IN IF u = 0 THEN Finish(rec, "login_required")
       \* get_or_404 raises NotFound inside the try: except Exception
       ELSE IF found = {} THEN Finish(rec, "error")
       ELSE IF \E r \in found : NotOwner(r, u) THEN Finish(rec, "forbidden")
       ELSE IF f = "commit" THEN Finish(Failed(rec, f), "error")
       ELSE /\ reminders' = reminders \ found
            /\ last' = [rec EXCEPT !.status = "ok"]
            /\ UNCHANGED <<users, chats, appts, session, signupPc,
                           signupReq, now, cascadeBackrefs>>

\* ------------------------------------------------------------------------
\* Appointments
\* ------------------------------------------------------------------------
\* the booking form: appointment_date and appointment_time, either missing,
\* not in the '%Y-%m-%d %H:%M' format, or naming the instant dt
Forms ==
    {[kind |-> "missing", dt |-> 0], [kind |-> "invalid", dt |-> 0]}
    \cup {[kind |-> "ok", dt |-> t] : t \in 0..(MaxTime + 1)}

\* the comparison with the clock turned round
InPastReversed(dt) == dt > now

\* appointment_datetime < datetime.now()
InPast(dt) == dt < now

\* GET or POST /book/<doctor_id>
BookAppointment(c, doctor_id, method, form, f) ==
    LET u == current_user(c)
        rec == [Req("book_appointment", c) EXCEPT !.id = doctor_id,
                    !.dt = form.dt]
    IN IF u = 0 THEN Finish(rec, "login_required")
       ELSE IF doctor_id \notin 1..NumDoctors THEN Finish(rec, "not_found")
       ELSE IF method = "GET" THEN Finish(rec, "rendered")
       ELSE IF form.kind = "missing" THEN Finish(rec, "missing_fields")
       ELSE IF form.kind = "invalid" THEN Finish(rec, "invalid_format")
       ELSE IF InPast(form.dt) THEN Finish(rec, "past_rejected")
       ELSE IF f = "commit" THEN Finish(Failed(rec, f), "error")
       ELSE /\ Cardinality(appts) < MaxAppts
            /\ NextId(appts) <= MaxId
            /\ appts' = appts \cup
                   {[id |-> NextId(appts), dt |-> form.dt, user_id |-> u,
                     doctor_id |-> doctor_id]}
            /\ last' = [rec EXCEPT !.status = "booked"]
            /\ UNCHANGED <<users, chats, reminders, session, signupPc,
                           signupReq, now, cascadeBackrefs>>

\* POST /cancel_appointment/<id>
CancelAppointment(c, aid, f) ==
    LET u == current_user(c)
        found == {a \in appts : a.id = aid}
        rec == [Req("cancel_appointment", c) EXCEPT !.id = aid,
                    !.dt = Max({a.dt : a \in found})]
    IN IF u = 0 THEN Finish(rec, "login_required")
       \* get_or_404 raises NotFound inside the try: except Exception
       ELSE IF found = {} THEN Finish(rec, "error")
       ELSE IF \E a \in found : NotOwner(a, u) THEN Finish(rec, "forbidden")
       ELSE IF \E a \in found : InPast(a.dt) THEN Finish(rec, "past_rejected")
       ELSE IF f = "commit" THEN Finish(Failed(rec, f), "error")
       ELSE /\ appts' = appts \ found
            /\ last' = [rec EXCEPT !.status = "ok"]
            /\ UNCHANGED <<users, chats, reminders, session, signupPc,
                           signupReq, now, cascadeBackrefs>>

\* ------------------------------------------------------------------------
\* Accounts.  gunicorn runs several sync workers, so two signup requests
\* can both be between the existing-user query and the commit.
\* ------------------------------------------------------------------------
\* the email column without unique=True
UniqueViolationNever(email) == FALSE

\* the UNIQUE constraint of user.email, enforced by the database on INSERT
UniqueViolation(email) == \E u \in users : u.email = email

\* signup(), up to and including the existing-user query (lines 363-381)
SignupCheck(w, c, method, name, email, pw) ==
    LET rec == [Req("signup", c) EXCEPT !.email = email]
    IN /\ signupPc[w] = "idle"
       /\ IF current_user(c) # 0 THEN Finish(rec, "already_authenticated")
          ELSE IF method = "GET" THEN Finish(rec, "rendered")
          ELSE IF name = "" \/ email = "" \/ pw = ""
               THEN Finish(rec, "missing_fields")
          ELSE IF \E u \in users : u.email = email
               THEN Finish(rec, "email_taken")
          ELSE /\ signupPc' = [signupPc EXCEPT ![w] = "checked"]
               /\ signupReq' = [signupReq EXCEPT ![w] =
                      [client |-> c, name |-> name, email |-> email,
                       pw |-> pw]]
               /\ UNCHANGED <<users, chats, reminders, appts, session, now,
                              cascadeBackrefs, last>>

\* signup(), the add and commit with their handlers (lines 383-396)
SignupCommit(w, f) ==
    LET q == signupReq[w]
        rec == Failed([Req("signup", q.client) EXCEPT !.email = q.email], f)
        status == IF f = "commit" THEN "server_error"
                  ELSE IF UniqueViolation(q.email) THEN "integrity_error"
                  ELSE "created"
    IN /\ signupPc[w] = "checked"
       /\ status = "created" => Cardinality(users) < MaxUsers
       /\ users' = IF status = "created"
                   THEN users \cup {[id |-> NextId(users),
                                     email |-> q.email, pw |-> q.pw]}
                   ELSE users
       /\ signupPc' = [signupPc EXCEPT ![w] = "idle"]
       /\ signupReq' = [signupReq EXCEPT ![w] = NoReq]
       /\ last' = [rec EXCEPT !.status = status]
       /\ UNCHANGED <<chats, reminders, appts, session, now,
                      cascadeBackrefs>>

\* POST /login
Login(c, email, pw) ==
    LET rec == [Req("login", c) EXCEPT !.email = email]
        match == {u \in users : u.email = email /\ u.pw = pw}
    IN IF current_user(c) # 0 THEN Finish(rec, "already_authenticated")
       ELSE IF match = {} THEN Finish(rec, "login_failed")
       ELSE /\ session' = [session EXCEPT ![c] = Max({u.id : u \in match})]
            /\ last' = [rec EXCEPT !.status = "logged_in"]
            /\ UNCHANGED <<users, chats, reminders, appts, signupPc,
                           signupReq, now, cascadeBackrefs>>

\* GET /logout
Logout(c) ==
    LET rec == Req("logout", c)
    IN IF current_user(c) = 0 THEN Finish(rec, "login_required")
       ELSE /\ session' = [session EXCEPT ![c] = 0]
            /\ last' = [rec EXCEPT !.status = "ok"]
            /\ UNCHANGED <<users, chats, reminders, appts, signupPc,
                           signupReq, now, cascadeBackrefs>>

\* secret_init_db without the comparison of the key
InitDbAnyKey(c, keyOk) ==
    /\ users' = {}
    /\ chats' = {}
    /\ reminders' = {}
    /\ appts' = {}
    /\ last' = [Req("init_db", c) EXCEPT !.keyOk = keyOk, !.status = "ok"]
    /\ UNCHANGED <<session, signupPc, signupReq, now, cascadeBackrefs>>

\* GET /admin/super-secret-init-db?key=...: drop_all, create_all, reload the
\* articles and the doctors
InitDb(c, keyOk) ==
    LET rec == [Req("init_db", c) EXCEPT !.keyOk = keyOk]
    IN IF ~keyOk THEN Finish(rec, "forbidden")
       ELSE /\ users' = {}
            /\ chats' = {}
            /\ reminders' = {}
            /\ appts' = {}
            /\ last' = [rec EXCEPT !.status = "ok"]
            /\ UNCHANGED <<session, signupPc, signupReq, now,
                           cascadeBackrefs>>

\* the response leaves and the request context is torn down
Deliver ==
    /\ ~Idle
    /\ last' = NoLast
    /\ UNCHANGED <<users, chats, reminders, appts, session, signupPc,
                   signupReq, now, cascadeBackrefs>>

\* time passes between requests
Tick ==
    /\ Idle
    /\ now < MaxTime
    /\ now' = now + 1
    /\ UNCHANGED <<users, chats, reminders, appts, session, signupPc,
                   signupReq, cascadeBackrefs, last>>

Messages == {"", "hi"}
Methods == {"GET", "POST"}
Names == {"", "n"}

AskStep(replies) ==
    /\ Idle
    /\ \E c \in Clients, msg \in Messages, reply \in replies,
          f \in AskFailures : Ask(c, msg, reply, f)

GetHistoryStep ==
    /\ Idle
    /\ \E c \in Clients : GetHistory(c)

ClearChatStep ==
    /\ Idle
    /\ \E c \in Clients, f \in CommitFailures : ClearChat(c, f)

AddReminderStep(meds, dosages, times) ==
    /\ Idle
    /\ \E c \in Clients, med \in meds, dosage \in dosages, tstr \in times,
          f \in CommitFailures : AddReminder(c, med, dosage, tstr, f)

DeleteReminderStep ==
    /\ Idle
    /\ \E c \in Clients, rid \in 1..(MaxId + 1), f \in CommitFailures :
          DeleteReminder(c, rid, f)

BookAppointmentStep ==
    /\ Idle
    /\ \E c \in Clients, doctor_id \in {1, NumDoctors + 1},
          method \in Methods, form \in Forms, f \in CommitFailures :
          BookAppointment(c, doctor_id, method, form, f)

CancelAppointmentStep ==
    /\ Idle
    /\ \E c \in Clients, aid \in 1..(MaxId + 1), f \in CommitFailures :
          CancelAppointment(c, aid, f)

SignupCheckStep ==
    /\ Idle
    /\ \E w \in Workers, c \in Clients, method \in Methods, name \in Names,
          email \in Emails \cup {""}, pw \in {"", "pw1"} :
          SignupCheck(w, c, method, name, email, pw)

SignupCommitStep ==
    /\ Idle
    /\ \E w \in Workers, f \in CommitFailures : SignupCommit(w, f)

LoginStep ==
    /\ Idle
    /\ \E c \in Clients, email \in Emails, pw \in Passwords :
          Login(c, email, pw)

LogoutStep == Idle /\ \E c \in Clients : Logout(c)

InitDbStep == Idle /\ \E c \in Clients, keyOk \in BOOLEAN : InitDb(c, keyOk)

\* ------------------------------------------------------------------------
\* The whole application, from the freshly initialised database
\* ------------------------------------------------------------------------
Next ==
    \/ AskStep(Replies)
    \/ GetHistoryStep
    \/ ClearChatStep
    \/ AddReminderStep(Medicines, Dosages, Times)
    \/ DeleteReminderStep
    \/ BookAppointmentStep
    \/ CancelAppointmentStep
    \/ SignupCheckStep
    \/ SignupCommitStep
    \/ LoginStep
    \/ LogoutStep
    \/ InitDbStep
    \/ Tick
    \/ Deliver

Spec == Init /\ [][Next]_vars

\* ------------------------------------------------------------------------
\* The parts of the application, each explored on its own.  The data parts
\* start from a state Spec reaches: two accounts signed up, browser b1
\* logged in as the first, browser b2 logged in as the second.
\* ------------------------------------------------------------------------
TwoUsers ==
    {[id |-> 1, email |-> "a@x", pw |-> "pw1"],
     [id |-> 2, email |-> "b@x", pw |-> "pw1"]}

InitLoggedIn ==
    /\ users = TwoUsers
    /\ chats = {}
    /\ reminders = {}
    /\ appts = {}
    /\ session = [c \in Clients |-> IF c = "b1" THEN 1 ELSE 2]
    /\ signupPc = [w \in Workers |-> "idle"]
    /\ signupReq = [w \in Workers |-> NoReq]
    /\ now = 0
    /\ cascadeBackrefs \in BOOLEAN
    /\ last = NoLast

\* the same, for the parts that never link a row to current_user by a backref
InitAppt == InitLoggedIn /\ cascadeBackrefs

\* accounts and sessions
NextAccounts ==
    \/ SignupCheckStep
    \/ SignupCommitStep
    \/ LoginStep
    \/ LogoutStep
    \/ InitDbStep
    \/ Deliver

SpecAccounts == Init /\ [][NextAccounts]_vars

\* the chat and the reminders it creates
NextChat ==
    \/ AskStep(Replies)
    \/ ClearChatStep
    \/ Deliver

SpecChat == InitLoggedIn /\ [][NextChat]_vars

\* the chat read back at different times of the clock
ProseReplies == {r \in Replies : r.kind \in {"fail", "text"}}

NextHistory ==
    \/ AskStep(ProseReplies)
    \/ ClearChatStep
    \/ GetHistoryStep
    \/ Tick
    \/ Deliver

SpecHistory == InitLoggedIn /\ [][NextHistory]_vars

\* the reminders page
NextReminders ==
    \/ AddReminderStep(Medicines \ {JNum(<<"5">>)}, {JNull, JStr(<<"5">>)},
                       Times \ {JStr(<<"2", "0">>)})
    \/ DeleteReminderStep
    \/ Deliver

SpecReminders == InitAppt /\ [][NextReminders]_vars

\* requests on rows that exist already: each table holds rows of one or
\* of both users, left there by earlier /ask, add_reminder and booking
\* requests
ChatsOf(u) ==
    IF cascadeBackrefs
    THEN {[id |-> 1, role |-> "user", content |-> UserText, ts |-> 0,
           user_id |-> u],
          [id |-> 2, role |-> "assistant", content |-> CannedText, ts |-> 0,
           user_id |-> u]}
    ELSE {[id |-> 1, role |-> "user", content |-> UserText, ts |-> 0,
           user_id |-> u],
          [id |-> 2, role |-> "user", content |-> UserText, ts |-> 0,
           user_id |-> 3 - u]}

InitOwned ==
    /\ users = TwoUsers
    /\ cascadeBackrefs \in BOOLEAN
    /\ \E u \in {1, 2} : chats = ChatsOf(u)
    /\ \E u \in {1, 2} :
          reminders = {[id |-> 1, med |-> <<"A">>, dosage |-> JNull,
                        tm |-> [h |-> 8, m |-> 0, s |-> 0], user_id |-> u]}
    /\ \E u \in {1, 2}, t \in 0..MaxTime :
          appts = {[id |-> 1, dt |-> t, user_id |-> u, doctor_id |-> 1]}
    /\ session = [c \in Clients |-> IF c = "b1" THEN 1 ELSE 2]
    /\ signupPc = [w \in Workers |-> "idle"]
    /\ signupReq = [w \in Workers |-> NoReq]
    /\ now = 0
    /\ last = NoLast

NextOwner ==
    \/ ClearChatStep
    \/ DeleteReminderStep
    \/ CancelAppointmentStep
    \/ Tick
    \/ Deliver

SpecOwner == InitOwned /\ [][NextOwner]_vars

\* every handler, called without a login: the tables hold rows of both
\* accounts, and a browser has either no cookie or the cookie of an account
\* that an earlier re-initialisation has removed
InitAnonymous ==
    /\ users = TwoUsers
    /\ cascadeBackrefs \in BOOLEAN
    /\ \E u \in {1, 2} : chats = ChatsOf(u)
    /\ \E u \in {1, 2} :
          reminders = {[id |-> 1, med |-> <<"A">>, dosage |-> JNull,
                        tm |-> [h |-> 8, m |-> 0, s |-> 0], user_id |-> u]}
    /\ \E u \in {1, 2} :
          appts = {[id |-> 1, dt |-> 0, user_id |-> u, doctor_id |-> 1]}
    /\ session \in [Clients -> {0, MaxUsers + 1}]
    /\ signupPc = [w \in Workers |-> "idle"]
    /\ signupReq = [w \in Workers |-> NoReq]
    /\ now = 0
    /\ last = NoLast

NextAnonymous ==
    \/ AskStep(ProseReplies)
    \/ GetHistoryStep
    \/ ClearChatStep
    \/ AddReminderStep({JStr(<<"A">>)}, {JNull},
                       {JNull, JStr(<<"0", "8", ":", "0", "0">>)})
    \/ DeleteReminderStep
    \/ BookAppointmentStep
    \/ CancelAppointmentStep
    \/ SignupCheckStep
    \/ SignupCommitStep
    \/ InitDbStep
    \/ Deliver

SpecAnonymous == InitAnonymous /\ [][NextAnonymous]_vars

\* appointments against the clock
NextAppt ==
    \/ BookAppointmentStep
    \/ CancelAppointmentStep
    \/ Tick
    \/ Deliver

SpecAppt == InitAppt /\ [][NextAppt]_vars

\* ------------------------------------------------------------------------
\* Properties of /ask, stated on the request that has just finished
\* ------------------------------------------------------------------------
\* the request got as far as calling the model
AskReached == last.op = "ask" /\ last.status \notin {"login_required", "bad_request"}

NewReminders == reminders \ last.pre.reminders
NewChats == chats \ last.pre.chats

\* the reply is the sentinel JSON
IsSentinel(reply) == reply.kind = "obj" /\ reply.action = "create_reminder"

\* a 24-hour HH:MM string: two digits 00-23, a colon, two digits 00-59
IsHHMM(v) ==
    /\ v.t = "str"
    /\ Len(v.s) = 5
    /\ v.s[3] = ":"
    /\ TwoDigits(v.s, 1) \in 0..23
    /\ TwoDigits(v.s, 4) \in 0..59

NonEmptyString(v) == v.t = "str" /\ v.s # <<>>

ValidSentinel(reply) ==
    /\ IsSentinel(reply)
    /\ NonEmptyString(reply.medicine)
    /\ IsHHMM(reply.time)

\* C1: /ask creates a reminder if and only if the reply is the sentinel JSON
\* with a non-empty medicine and a valid 24-hour HH:MM time; for every other
\* reply the stored reminders are unchanged.  (The "if" is read on requests
\* that return an answer.)
C1_ReminderIffValidSentinel ==
    last.op = "ask" =>
        /\ ~ValidSentinel(last.reply) => reminders = last.pre.reminders
        /\ (ValidSentinel(last.reply) /\ last.status = "ok") =>
               NewReminders # {}

\* C2: a sentinel reply that fails validation (medicine or time missing or
\* empty, or time no valid HH:MM value) creates no reminder and is answered
\* by a clarifying message, never a confirmation or another error text.
C2_InvalidSentinelClarifies ==
    (last.op = "ask" /\ last.status = "ok" /\ IsSentinel(last.reply)
        /\ ~ValidSentinel(last.reply)) =>
        /\ reminders = last.pre.reminders
        /\ last.answer.tag \in {"missing", "badtime"}

\* C6: a reply that does not parse as JSON is ordinary conversation: no
\* reminder is created and, unless the database itself fails, the request
\* succeeds with the reply text unchanged as the answer.
C6_NonJsonIsConversation ==
    (AskReached /\ last.reply.kind = "text") =>
        /\ reminders = last.pre.reminders
        /\ last.fail = "none" =>
               (last.status = "ok" /\ last.answer = RawText(last.reply))
        /\ \A m \in NewChats :
               m.role = "assistant" => m.content = RawText(last.reply)

C6_Witness ==
    /\ AskReached
    /\ last.reply.kind = "text"
    /\ last.status = "ok"
    /\ last.answer = RawText(last.reply)
    /\ \E m \in NewChats : m.role = "assistant"

\* the time of day an HH:MM string names
HHMMValue(v) ==
    [h |-> TwoDigits(v.s, 1), m |-> TwoDigits(v.s, 4), s |-> 0]

\* the dosage of the reply; the string "None" stands for no dosage
ReplyDosage(reply) ==
    IF reply.dosage = JStr(<<"N", "o", "n", "e">>) THEN JNull
    ELSE reply.dosage

C8_PersistFailureApologises ==
    (AskReached /\ Interpret(last.reply).reminder.on
        /\ last.fail = "commit") =>
        /\ last.status = "ok"
        /\ last.answer = ApologyText
        /\ Tables = last.pre

\* C9: when the call to the model fails, /ask creates no reminder and,
\* unless the database itself fails, succeeds with the canned "trouble
\* connecting" text as the answer.
C9_AiFailureDegrades ==
    (AskReached /\ last.reply.kind = "fail") =>
        /\ reminders = last.pre.reminders
        /\ last.fail = "none" =>
               (last.status = "ok" /\ last.answer = CannedText)
        /\ \A m \in NewChats :
               m.role = "assistant" => m.content = CannedText

C9_Witness ==
    /\ AskReached
    /\ last.reply.kind = "fail"
    /\ last.status = "ok"
    /\ last.answer = CannedText
    /\ NewChats # {}

\* C10: in every mutating operation a failing database write or commit is
\* caught by the handler, which rolls back and returns its error outcome,
\* and the tables are as they were before the request.
C10_DbFailureHandled ==
    last.fail # "none" =>
        /\ last.status \in {"error", "server_error"}
        /\ Tables = last.pre

\* ------------------------------------------------------------------------
\* Properties of the appointments, the accounts and the ownership of rows
\* ------------------------------------------------------------------------
\* C3: book_appointment never stores an appointment earlier than the time
\* of the request, cancel_appointment never deletes one that is earlier than
\* the time of the request; a request rejected for that leaves the
\* appointments as they were.
C3_PastAppointmentsRejected ==
    /\ last.op = "book_appointment" =>
           /\ \A a \in appts \ last.pre.appts : a.dt >= last.now
           /\ last.pre.appts \subseteq appts
    /\ last.op = "cancel_appointment" =>
           /\ \A a \in last.pre.appts \ appts : a.dt >= last.now
           /\ appts \subseteq last.pre.appts
    /\ (last.op \in {"book_appointment", "cancel_appointment"}
           /\ last.user # 0 /\ last.dt < last.now) =>
           appts = last.pre.appts

C3_Witness ==
    /\ last.op = "cancel_appointment"
    /\ last.status = "past_rejected"
    /\ \E a \in appts :
          a.id = last.id /\ a.user_id = last.user /\ a.dt < last.now

\* C4: no two user rows have the same email, whatever the interleaving of
\* signup requests; of two signups that both passed the existing-user check
\* at most one creates a user, the other ends in an error and adds none.
C4_EmailUnique ==
    /\ \A u1 \in users, u2 \in users : u1.email = u2.email => u1 = u2
    /\ (last.op = "signup" /\ last.status # "created") =>
           users = last.pre.users
    /\ (last.op = "signup" /\ last.status = "created") =>
           /\ last.pre.users \subseteq users
           /\ Cardinality(users) = Cardinality(last.pre.users) + 1
           /\ \A u \in last.pre.users : u.email # last.email

C4_Witness ==
    /\ last.op = "signup"
    /\ last.status = "integrity_error"
    /\ \E u \in users : u.email = last.email
    /\ users = last.pre.users

OthersRows(rows, u) == {r \in rows : r.user_id # u}

\* C5: delete_reminder, cancel_appointment and clear_chat leave every row of
\* every other user as it was, and the first two answer a request on a row
\* of another user with their unauthorized outcome.
C5_OtherUsersRowsUntouched ==
    last.op \in {"delete_reminder", "cancel_appointment", "clear_chat"} =>
        /\ OthersRows(chats, last.user) = OthersRows(last.pre.chats, last.user)
        /\ OthersRows(reminders, last.user)
               = OthersRows(last.pre.reminders, last.user)
        /\ OthersRows(appts, last.user) = OthersRows(last.pre.appts, last.user)
        /\ (last.op = "delete_reminder" /\ last.user # 0
               /\ \E r \in last.pre.reminders :
                     r.id = last.id /\ r.user_id # last.user) =>
               last.status = "forbidden"
        /\ (last.op = "cancel_appointment" /\ last.user # 0
               /\ \E a \in last.pre.appts :
                     a.id = last.id /\ a.user_id # last.user) =>
               last.status = "forbidden"

C5_Witness ==
    /\ last.op = "delete_reminder"
    /\ last.status = "forbidden"
    /\ \E r \in reminders : r.id = last.id /\ r.user_id # last.user
    /\ OthersRows(chats, last.user) # {}
    /\ OthersRows(appts, last.user) # {}

\* ------------------------------------------------------------------------
\* Properties of the chat history and of the context sent to the model
\* ------------------------------------------------------------------------
\* C11: the chat history get_history returns holds only messages of the
\* calling user and is in non-decreasing timestamp order, whatever /ask and
\* clear_chat requests of any users came before.
C11_HistoryOwnAndOrdered ==
    (last.op = "get_history" /\ last.status = "ok") =>
        /\ \A i \in DOMAIN last.history :
               /\ last.history[i] \in chats
               /\ last.history[i].user_id = last.user
        /\ \A i \in DOMAIN last.history, j \in DOMAIN last.history :
               i < j => last.history[i].ts <= last.history[j].ts

C11_Witness ==
    /\ last.op = "get_history"
    /\ last.status = "ok"
    /\ Len(last.history) >= 2
    /\ last.history[1].ts < last.history[Len(last.history)].ts
    /\ \E m \in chats : m.user_id # last.user

\* the request called the model
ModelCalled == last.op = "ask" /\ last.messages # <<>>

\* the row of the user message of the finished /ask
CurrentTurn ==
    ChatRow(last.pre.chats, "user", UserText, last.now, last.user)

\* the caller's turns the context of the finished /ask can be drawn from
StoredTurns == filter_by(last.pre.chats \cup {CurrentTurn}, last.user)

\* the stored turn behind entry i of the message list
TurnAt(i) == CHOOSE m \in StoredTurns : m.id = last.messages[i].row

\* the entries between the system prompt and the closing user message
ContextAt == 2..(Len(last.messages) - 1)

\* C13: the message list /ask sends to the model is the system prompt,
\* then at most the 10 most recent stored turns of the calling user only,
\* in ascending timestamp order, then the current user message, and the
\* current user message is in the list exactly once.
C13_ContextThenCurrentOnce ==
    ModelCalled =>
        /\ Len(last.messages) >= 2
        /\ last.messages[1] = Message("system", SystemPrompt, 0)
        /\ last.messages[Len(last.messages)] = Message("user", UserText, 0)
        /\ Cardinality(ContextAt) <= HistoryLimit
        /\ \A i \in ContextAt :
               /\ \E m \in StoredTurns : m.id = last.messages[i].row
               /\ last.messages[i].role = TurnAt(i).role
               /\ last.messages[i].content = TurnAt(i).content
        /\ \A i \in ContextAt, j \in ContextAt :
               i < j => /\ TurnAt(i).ts <= TurnAt(j).ts
                        /\ TurnAt(i) # TurnAt(j)
        /\ \A m \in StoredTurns :
               (\A i \in ContextAt : TurnAt(i) # m) =>
                   \A i \in ContextAt : m.ts <= TurnAt(i).ts
        /\ Cardinality({i \in DOMAIN last.messages :
                           \/ i = Len(last.messages)
                           \/ last.messages[i].row = CurrentTurn.id}) = 1

\* C14: every /ask that returns an answer leaves the caller's chat history
\* extended by exactly two messages, the user's message with role 'user'
\* followed by a message with role 'assistant' whose content is the answer
\* returned, on every branch of the reminder handling.
C14_AnswerExtendsHistoryByTwo ==
    (last.op = "ask" /\ last.status = "ok") =>
        /\ last.pre.chats \subseteq chats
        /\ \E um \in NewChats, am \in NewChats :
               /\ NewChats = {um, am}
               /\ um.role = "user" /\ um.content = UserText
               /\ am.role = "assistant" /\ am.content = last.answer
               /\ um.user_id = last.user /\ am.user_id = last.user
               /\ um.id < am.id
               /\ um.ts <= am.ts

\* C15: /ask never ends in an unhandled exception because of the model's
\* reply: whatever the reply (prose, JSON that is no object, a sentinel
\* whose medicine or time is not a string), and unless the database fails
\* before the reply is read, the request ends with an answer or with the
\* 'Could not save chat history' error.
C15_ReplyNeverUnhandled ==
    (AskReached /\ last.fail # "flush") => last.status \in {"ok", "error"}

\* ------------------------------------------------------------------------
\* Properties of the stored reminders
\* ------------------------------------------------------------------------
\* the time string the finished request wanted stored
RequestedTime ==
    IF last.op = "ask" THEN last.reply.time ELSE last.time

\* C12: every stored reminder, created through /ask or through
\* add_reminder, has a non-empty medicine name and the time of day of a
\* valid 24-hour HH:MM string (hour 00-23, minute 00-59, nothing else);
\* add_reminder with a missing field or an invalid time answers 400 and
\* stores nothing.
C12_StoredRemindersValid ==
    /\ \A r \in reminders : r.med # <<>> /\ r.tm.s = 0
    /\ last.op \in {"ask", "add_reminder"} =>
           \A r \in NewReminders :
               /\ IsHHMM(RequestedTime)
               /\ r.tm = HHMMValue(RequestedTime)
    /\ (last.op = "add_reminder" /\ last.user # 0
           /\ (~NonEmptyString(last.med) \/ ~IsHHMM(last.time))) =>
           /\ last.status = "bad_request"
           /\ reminders = last.pre.reminders

\* ------------------------------------------------------------------------
\* Properties of the login sessions
\* ------------------------------------------------------------------------
\* the user row a session id denotes (none, or one)
AccountOf(id, table) == {u \in table : u.id = id}

\* C16: a request under an authenticated session acts as the account whose
\* email and password were verified when the session logged in, through
\* every signup, login, logout and re-initialisation of the database: a
\* login binds the session to the verified row, and as long as the session
\* keeps its id the row behind it stays that row or is gone, never becomes
\* a row created later.
C16_SessionKeepsItsAccount ==
    [][\A c \in Clients :
          /\ (last'.op = "login" /\ last'.status = "logged_in"
                 /\ last'.client = c) =>
                 \E u \in users :
                     /\ u.email = last'.email
                     /\ AccountOf(session'[c], users') = {u}
          /\ (session[c] # 0 /\ session'[c] = session[c]) =>
                 AccountOf(session[c], users')
                     \subseteq AccountOf(session[c], users)]_vars

\* the handlers behind login_required
DataOps ==
    {"ask", "get_history", "clear_chat", "add_reminder", "delete_reminder",
     "book_appointment", "cancel_appointment"}

\* C17: a request without an authenticated session never reads or changes
\* a chat message, a reminder or an appointment; the only changes of the
\* database it can make are a signup that adds one user and secret_init_db
\* with the correct key; secret_init_db with a wrong or missing key answers
\* 403 and leaves the database as it was.
C17_AnonymousTouchesNoData ==
    (last.op # "none" /\ last.user = 0) =>
        /\ last.op \in DataOps =>
               /\ last.status = "login_required"
               /\ last.history = <<>>
               /\ last.messages = <<>>
        /\ last.op \notin {"signup", "init_db"} => Tables = last.pre
        /\ last.op = "signup" =>
               /\ chats = last.pre.chats
               /\ reminders = last.pre.reminders
               /\ appts = last.pre.appts
               /\ last.pre.users \subseteq users
               /\ Cardinality(users) <= Cardinality(last.pre.users) + 1
        /\ (last.op = "init_db" /\ ~last.keyOk) =>
               /\ last.status = "forbidden"
               /\ Tables = last.pre

C17_Witness ==
    /\ last.op = "ask"
    /\ last.user = 0
    /\ session[last.client] # 0
    /\ last.status = "login_required"
    /\ \E m \in chats : m.user_id = 1
    /\ reminders # {}
    /\ appts # {}

\* ------------------------------------------------------------------------
\* Properties of requests on rows that do not exist
\* ------------------------------------------------------------------------
\* the finished request named a row its table did not hold
MissingRow ==
    \/ /\ last.op = "delete_reminder"
       /\ \A r \in last.pre.reminders : r.id # last.id
    \/ /\ last.op = "cancel_appointment"
       /\ \A a \in last.pre.appts : a.id # last.id

\* C18: delete_reminder and cancel_appointment called with an id that does
\* not exist (already deleted, say) end with the not-found outcome, not
\* with the internal-error outcome, and leave the database as it was.
C18_MissingIdIsNotFound ==
    (MissingRow /\ last.user # 0) =>
        /\ last.status = "not_found"
        /\ Tables = last.pre

====
